---- MODULE Spec2Model ----
\* ODK Central: the Actor/Actee authorization and the server entrypoint of
\* src/lib/model/instance/actor.js, the Enketo client of
\* src/lib/util/enketo.js and versionParser of src/unnamed/part_000.
\* The Actor instance methods are translated from the source.  The query
\* modules they call (actors, roles, simply) follow the design document:
\* Grant Store, Authorization Resolver and Actor Lifecycle Manager.
EXTENDS Integers, Sequences, FiniteSets, TLC

VARIABLES
  actors,   \* the actors table: a sequence of rows, row i has id i
  grants,   \* the Grant Store: a set of [actorId, roleId, acteeId]
  members,  \* membership edges <<member id, parent id>>
  last,     \* the most recent call: [op, actor, pre]; actor is the id consume
            \* was called on, pre tells what held when the call was made
  pending,  \* the assignment request whose capability check has returned and
            \* whose grant is not yet written; NoRequest when there is none
  termed,          \* let termed of the server entrypoint
  received,        \* the signals and parent messages delivered so far
  gracefulStarts,  \* how many times exit.gracefulExitHandler was called
  stage,           \* where the graceful path is: serving, draining,
                   \* destroying (db.destroy running) or destroyed
  exits,           \* the codes process.exit was called with, in order
  client,    \* what init returned: the mock or an Enketo client; Unbuilt before
  promise,   \* the promise preview returned: [state, value]
  requests,  \* how many http requests were issued
  res,       \* the response: [phase, statusCode, resData]
  request,   \* the http request handed to versionParser: [url, apiVersion]
  nexts      \* the calls of next versionParser made, with their argument

serverVars == <<termed, received, gracefulStarts, stage, exits>>

enketoVars == <<client, promise, requests, res>>

httpVars == <<request, nexts>>

\* the state outside the actor store
aside == <<serverVars, enketoVars, httpVars>>

vars == <<actors, grants, members, last, pending, aside>>

NoRequest == [assigner |-> 0]

\* the entrypoint module has just been loaded
ServerInit ==
  /\ termed = FALSE
  /\ received = <<>>
  /\ gracefulStarts = 0
  /\ stage = "serving"
  /\ exits = <<>>

Unbuilt == [kind |-> "unbuilt"]

NoPromise == [state |-> "none", value |-> [none |-> TRUE]]

NoResponse == [phase |-> "none", statusCode |-> 0, resData |-> <<>>]

\* the enketo module has just been loaded
EnketoInit ==
  /\ client = Unbuilt
  /\ promise = NoPromise
  /\ requests = 0
  /\ res = NoResponse

\* no request has come in
HttpIdle ==
  /\ request = [url |-> <<>>]
  /\ nexts = <<>>

AsideInit == ServerInit /\ EnketoInit /\ HttpIdle

----------------------------------------------------------------------------
\* Bounds and fixed data

\* deletedAt of a row that is not soft-deleted
Null == 0

\* largest number of grants the store may hold
MaxGrants == 2

\* largest number of actors the lifecycle specification creates
MaxActors == 2

\* the instant a deletion is stamped with
Times == {1}

\* the last instant of the clock where deletions happen at different times
MaxTime == 2

actorTypes ==
  {"system", "user", "group", "proxy", "singleUse", "field_key", "preview_key"}

Verbs == {"user.read", "user.update", "session.end", "form.read", "form.update"}

\* the roles table: editor is the role of the spec's end-to-end scenario
Roles ==
  { [id |-> 1, systemName |-> "editor", verbs |-> {"form.read", "form.update"}],
    [id |-> 2, systemName |-> "app", verbs |-> {"form.read", "session.end"}] }

RoleIds == {r.id : r \in Roles}

roleOf(roleId) == CHOOSE r \in Roles : r.id = roleId

\* acteeIds handed out to actors by the identifier generator, by actor id
ActeeIdOf == <<"a1", "a2", "a3", "a4">>

\* the form actee of the scenario
F1 == [acteeId |-> "f1", type |-> "form"]

----------------------------------------------------------------------------
\* Instances and the actors table

ActorIds == 1..Len(actors)

\* the Actor instance (this) of a row: the fields the methods read
Inst(row) == [id |-> row.id, type |-> row.type, acteeId |-> row.acteeId]

\* every instance a caller may hold, live or soft-deleted since it was fetched
Instances == {Inst(actors[i]) : i \in ActorIds}

\* an instance whose row never existed
Ghost == [id |-> 0, type |-> "user", acteeId |-> "ghost"]

\* an actee no row or grant refers to
GhostActee == [acteeId |-> "ghost2", type |-> "ghost"]

exists(actorId) == actorId \in ActorIds

live(actorId) == exists(actorId) /\ actors[actorId].deletedAt = Null

\* the actee view of an instance or actee object
AsActee(x) == [acteeId |-> x.acteeId, type |-> x.type]

\* the actees permission checks are asked about
Targets == {AsActee(a) : a \in Instances} \cup {F1, GhostActee}

----------------------------------------------------------------------------
\* The row store and the Authorization Resolver (query modules)

\* manually implemented acteeIds(): the scope chain of an actee
acteeIds_noType(actee) == <<actee.acteeId, "*">>

acteeIds(actee) == <<actee.acteeId, actee.type, "*">>

chain(actee) == {acteeIds(actee)[i] : i \in DOMAIN acteeIds(actee)}

\* iterative traversal of the membership graph with a visited-set guard;
\* only the actors in nodes are entered
RECURSIVE traverse(_, _, _)
traverse(nodes, frontier, visited) ==
  IF frontier = {} THEN visited
  ELSE LET next == {p \in nodes : \E c \in frontier : <<c, p>> \in members}
                     \ visited
       IN traverse(nodes, next, visited \cup next)

walk_noGuard(nodes, frontier, visited, fuel) ==
  LET RECURSIVE again(_, _, _)
      again(f, v, n) ==
        IF f = {} THEN [entered |-> <<>>, done |-> TRUE]
        ELSE IF n = 0 THEN [entered |-> <<>>, done |-> FALSE]
        ELSE LET next == {p \in nodes : \E c \in f : <<c, p>> \in members}
                 rest == again(next, v \cup next, n - 1)
             IN  [entered |-> <<next>> \o rest.entered, done |-> rest.done]
  IN  again(frontier, visited, fuel)

\* the same traversal, round by round: the actors entered in each round, and
\* whether the frontier ran empty within fuel rounds
RECURSIVE walk(_, _, _, _)
walk(nodes, frontier, visited, fuel) ==
  IF frontier = {} THEN [entered |-> <<>>, done |-> TRUE]
  ELSE IF fuel = 0 THEN [entered |-> <<>>, done |-> FALSE]
  ELSE LET next == {p \in nodes : \E c \in frontier : <<c, p>> \in members}
                     \ visited
           rest == walk(nodes, next, visited \cup next, fuel - 1)
       IN  [entered |-> <<next>> \o rest.entered, done |-> rest.done]

\* membership closure of a subject: the subject and every actor it belongs
\* to, directly or transitively; soft-deleted actors are excluded and not
\* traversed, a missing or soft-deleted subject has no closure
ancestorsOf(actorId) ==
  IF ~live(actorId) THEN {}
  ELSE traverse({i \in ActorIds : live(i)}, {actorId}, {actorId})

\* the grants that reach a subject on a target
grantsOn(actorId, actee) ==
  LET holders == ancestorsOf(actorId)
      scopes == chain(actee)
  IN  {g \in grants : g.actorId \in holders /\ g.acteeId \in scopes}

actors_verbsOn(actorId, actee) ==
  UNION {roleOf(g.roleId).verbs : g \in grantsOn(actorId, actee)}

actors_can(actor, verb, actee) == verb \in actors_verbsOn(actor.id, actee)

\* re-granting an existing triple leaves the store as it is
actors_assignRole(actorId, roleId, acteeId) ==
  grants \cup {[actorId |-> actorId, roleId |-> roleId, acteeId |-> acteeId]}

\* exact-match removal; removing a missing triple leaves the store as it is
actors_unassignRole(actorId, roleId, acteeId) ==
  grants \ {[actorId |-> actorId, roleId |-> roleId, acteeId |-> acteeId]}

simply_markDeleted_restamp(instance, now) ==
  IF exists(instance.id)
  THEN [actors EXCEPT ![instance.id].deletedAt = now]
  ELSE actors

\* sets deletedAt to now; a missing or already deleted row is left alone
simply_markDeleted(instance, now) ==
  IF live(instance.id)
  THEN [actors EXCEPT ![instance.id].deletedAt = now]
  ELSE actors

None == [id |-> 0]

\* soft-deleted rows are filtered out of every read path
actors_getById(id) == IF live(id) THEN actors[id] ELSE None

actors_create(draft) ==
  Append(actors, [id |-> Len(actors) + 1, type |-> draft.type,
                  acteeId |-> ActeeIdOf[Len(actors) + 1], deletedAt |-> Null])

----------------------------------------------------------------------------
\* The Actor instance methods (this = a)

\* a bare id passed where an object is accepted
Bare(v) == [raw |-> v]

roleIdArg_objectOnly(role) == IF "id" \in DOMAIN role THEN role.id ELSE 0

\* (role.id != null) ? role.id : role
roleIdArg(role) == IF "id" \in DOMAIN role THEN role.id ELSE role.raw

\* (actee.acteeId != null) ? actee.acteeId : actee
acteeIdArg(actee) == IF "acteeId" \in DOMAIN actee THEN actee.acteeId ELSE actee.raw

create(draft) ==
  /\ actors' = actors_create(draft)
  /\ UNCHANGED <<grants, members>>

delete_noMark(a, now) == UNCHANGED <<actors, grants, members>>

\* Performs a soft-delete on the Actor, setting deletedAt to the current date.
delete(a, now) ==
  /\ actors' = simply_markDeleted(a, now)
  /\ UNCHANGED <<grants, members>>

consume_never(a, now) == UNCHANGED <<actors, grants, members>>

consume_always(a, now) == delete(a, now)

\* Does nothing unless this is a single use actor, in which case the actor
\* will be deleted.
consume(a, now) ==
  IF a.type # "singleUse"
  THEN UNCHANGED <<actors, grants, members>>
  ELSE delete(a, now)

assignRole(a, role, actee) ==
  /\ grants' = actors_assignRole(a.id, roleIdArg(role), acteeIdArg(actee))
  /\ UNCHANGED <<actors, members>>

\* the roles table looked up by well-known name; none when it has no such row
roles_getBySystemName(roleSystemName) ==
  IF \E r \in Roles : r.systemName = roleSystemName
  THEN CHOOSE r \in Roles : r.systemName = roleSystemName
  ELSE None

\* getOrReject(Problem.internal.missingSystemRow('role'))
missingSystemRow == "missingSystemRow"

assignSystemRole_fallback(a, roleSystemName, actee) ==
  IF roles_getBySystemName(roleSystemName) = None
  THEN assignRole(a, roleOf(1), actee)
  ELSE assignRole(a, roles_getBySystemName(roleSystemName), actee)

assignSystemRole(a, roleSystemName, actee) ==
  IF roles_getBySystemName(roleSystemName) = None
  THEN UNCHANGED <<actors, grants, members>>
  ELSE assignRole(a, roles_getBySystemName(roleSystemName), actee)

\* what the promise of assignSystemRole settles with
assignSystemRoleOutcome(roleSystemName) ==
  IF roles_getBySystemName(roleSystemName) = None
  THEN [rejected |-> missingSystemRow]
  ELSE [resolved |-> TRUE]

unassignRole_anyRole(a, role, actee) ==
  /\ grants' = {g \in grants :
                  ~(g.actorId = a.id /\ g.acteeId = acteeIdArg(actee))}
  /\ UNCHANGED <<actors, members>>

unassignRole(a, role, actee) ==
  /\ grants' = actors_unassignRole(a.id, roleIdArg(role), acteeIdArg(actee))
  /\ UNCHANGED <<actors, members>>

verbsOn_direct(a, actee) ==
  UNION {roleOf(g.roleId).verbs :
           g \in {h \in grants : h.actorId = a.id /\ live(a.id)
                                   /\ h.acteeId \in chain(actee)}}

\* returns the verbs the Actor may perform on the given actee.
verbsOn(a, actee) == actors_verbsOn(a.id, actee)

canAssignRole_some(a, role, actee) ==
  LET has == verbsOn(a, actee)
  IN  role.verbs = {} \/ \E required \in role.verbs : required \in has

canAssignRole_withCodeGrants(a, role, actee) ==
  LET has == verbsOn(a, actee)
  IN  \A required \in role.verbs :
        \/ required \in has
        \/ a.acteeId = actee.acteeId /\ required \in {"user.read", "user.update"}

\* you should never be able to assign verbs you yourself do not possess.
canAssignRole(a, role, actee) ==
  LET has == verbsOn(a, actee)
  IN  \A required \in role.verbs : required \in has

\* the code grant and whether the store was asked
Granted == [value |-> TRUE, store |-> FALSE]

Asked(a, verb, actee) == [value |-> actors_can(a, verb, actee), store |-> TRUE]

canCall_noUpdate(a, verb, actee) ==
  IF a.acteeId = actee.acteeId /\ verb = "user.read" THEN Granted
  ELSE IF a.acteeId = actee.acteeId /\ verb = "session.end" /\ a.type # "field_key"
  THEN Granted
  ELSE Asked(a, verb, actee)

canCall_anyType(a, verb, actee) ==
  IF a.acteeId = actee.acteeId /\ verb \in {"user.read", "user.update", "session.end"}
  THEN Granted
  ELSE Asked(a, verb, actee)

canCall_anyActee(a, verb, actee) ==
  IF verb \in {"user.read", "user.update"} THEN Granted
  ELSE IF verb = "session.end" /\ a.type # "field_key" THEN Granted
  ELSE Asked(a, verb, actee)

\* whether this Actor may perform the given verb on the given Actee
canCall(a, verb, actee) ==
  IF a.acteeId = actee.acteeId /\ (verb = "user.read" \/ verb = "user.update")
  THEN Granted
  ELSE IF a.acteeId = actee.acteeId /\ verb = "session.end" /\ a.type # "field_key"
  THEN Granted
  ELSE Asked(a, verb, actee)

can(a, verb, actee) == canCall(a, verb, actee).value

getById(id) == actors_getById(id)

\* adding an actor to another; an edge that would close a cycle is rejected
addMember(child, parent) ==
  /\ members' = IF child \in traverse(ActorIds, {parent}, {parent})
                THEN members
                ELSE members \cup {<<child, parent>>}
  /\ UNCHANGED <<actors, grants>>

----------------------------------------------------------------------------
\* What the steps record about the state a call was made in

\* the actee object of an argument; a bare scope id names itself and "*"
acteeOf(actee) ==
  IF "acteeId" \in DOMAIN actee THEN AsActee(actee)
  ELSE [acteeId |-> actee.raw, type |-> actee.raw]

\* the grant an assignRole or unassignRole call names
tripleOf(a, role, actee) ==
  [actorId |-> a.id, roleId |-> roleIdArg(role), acteeId |-> acteeIdArg(actee)]

\* whether the actor held every verb of the role on the actee at the call
heldBefore(a, role, actee) ==
  canAssignRole(a, roleOf(roleIdArg(role)), acteeOf(actee))

----------------------------------------------------------------------------
\* Specification of the authorization scenario: a field key K1 (id 1), a user
\* U1 (id 2) and a group G1 (id 3) exist; grants, memberships and
\* soft-deletions are made in any order.

Fixture ==
  << [id |-> 1, type |-> "field_key", acteeId |-> ActeeIdOf[1], deletedAt |-> Null],
     [id |-> 2, type |-> "user", acteeId |-> ActeeIdOf[2], deletedAt |-> Null],
     [id |-> 3, type |-> "group", acteeId |-> ActeeIdOf[3], deletedAt |-> Null] >>

RoleArgs == Roles

ActeeArgs == {F1, Bare("form"), Bare("*")}

MemberArgs == {<<1, 2>>, <<2, 3>>, <<3, 1>>}

Init ==
  /\ actors = Fixture
  /\ grants = {}
  /\ members = {}
  /\ last = [op |-> "init", actor |-> 0, pre |-> TRUE]
  /\ pending = NoRequest
  /\ AsideInit

Delete ==
  \E a \in Instances, now \in Times :
    /\ delete(a, now)
    /\ last' = [op |-> "delete", actor |-> 0, pre |-> live(a.id)]
    /\ UNCHANGED <<pending, aside>>

AssignRole ==
  \E a \in Instances, role \in RoleArgs, actee \in ActeeArgs :
    /\ assignRole(a, role, actee)
    /\ Cardinality(grants') <= MaxGrants
    /\ last' = [op |-> "assignRole", actor |-> 0, pre |-> heldBefore(a, role, actee)]
    /\ UNCHANGED <<pending, aside>>

UnassignRole ==
  \E a \in Instances, role \in RoleArgs, actee \in ActeeArgs :
    /\ unassignRole(a, role, actee)
    /\ last' = [op |-> "unassignRole", actor |-> 0,
                pre |-> tripleOf(a, role, actee) \in grants]
    /\ UNCHANGED <<pending, aside>>

AddMember ==
  \E e \in MemberArgs :
    /\ addMember(e[1], e[2])
    /\ last' = [op |-> "addMember", actor |-> 0, pre |-> TRUE]
    /\ UNCHANGED <<pending, aside>>

Next == Delete \/ AssignRole \/ UnassignRole \/ AddMember

Spec == Init /\ [][Next]_vars

----------------------------------------------------------------------------
\* Specification of the actor lifecycle: actors of every type are created,
\* granted a role on themselves or globally, consumed and soft-deleted.

SelfRoleArgs == {roleOf(2), Bare(2)}

InitLife ==
  /\ actors = <<>>
  /\ grants = {}
  /\ members = {}
  /\ last = [op |-> "init", actor |-> 0, pre |-> TRUE]
  /\ pending = NoRequest
  /\ AsideInit

Create ==
  \E type \in actorTypes :
    /\ Len(actors) < MaxActors
    /\ create([type |-> type])
    /\ last' = [op |-> "create", actor |-> 0, pre |-> TRUE]
    /\ UNCHANGED <<pending, aside>>

Consume ==
  \E a \in Instances, now \in Times :
    /\ consume(a, now)
    /\ last' = [op |-> "consume", actor |-> a.id, pre |-> live(a.id)]
    /\ UNCHANGED <<pending, aside>>

AssignSelf ==
  \E a \in Instances : \E role \in SelfRoleArgs, actee \in {a, Bare("*")} :
    /\ assignRole(a, role, actee)
    /\ Cardinality(grants') <= MaxGrants
    /\ last' = [op |-> "assignRole", actor |-> 0, pre |-> heldBefore(a, role, actee)]
    /\ UNCHANGED <<pending, aside>>

NextLife == Create \/ Delete \/ Consume \/ AssignSelf

SpecLife == InitLife /\ [][NextLife]_vars

----------------------------------------------------------------------------
\* Claims

\* every actor handle and every actee a check may be asked about
Subjects == Instances \cup {Ghost}

C2_SelfAccessShortcut ==
  \A a \in Subjects, e \in Targets \cup {AsActee(Ghost)} :
    a.acteeId = e.acteeId =>
      \A verb \in {"user.read", "user.update"} :
        canCall(a, verb, e) = [value |-> TRUE, store |-> FALSE]

\* C2 witness: with an empty Grant Store, where the store itself would
\* answer no, an actor is allowed to update itself.
C2_Witness ==
  /\ grants = {}
  /\ \E a \in Instances :
       /\ ~actors_can(a, "user.update", AsActee(a))
       /\ can(a, "user.update", AsActee(a))
       /\ can(a, "user.read", AsActee(a))

\* the grants that confer a verb on an actee, whoever holds them
conferring(verb, actee) ==
  {g \in grants : g.acteeId \in {actee.acteeId, actee.type, "*"}
                    /\ verb \in roleOf(g.roleId).verbs}

\* C3: can(a, "session.end", own actee) is true without the store being
\* asked for every actor whose type is not field_key; for a field_key actor
\* it is the store's answer, which is false when no grant confers
\* session.end on that actee.
C3_SessionEndOnSelf ==
  \A a \in Subjects :
    LET self == AsActee(a) IN
      /\ a.type # "field_key" =>
           canCall(a, "session.end", self) = [value |-> TRUE, store |-> FALSE]
      /\ a.type = "field_key" =>
           /\ canCall(a, "session.end", self).store
           /\ can(a, "session.end", self) = ("session.end" \in verbsOn(a, self))
           /\ conferring("session.end", self) = {} => ~can(a, "session.end", self)

\* C3 witness: a field key that may end its session only because of a grant,
\* a field key that may not, or another actor that may although the store
\* would answer no.
C3_Witness ==
  /\ \E k \in Instances :
       /\ k.type = "field_key"
       /\ can(k, "session.end", AsActee(k))
       /\ conferring("session.end", AsActee(k)) # {}
  /\ \E u \in Instances :
       /\ u.type # "field_key"
       /\ ~actors_can(u, "session.end", AsActee(u))
       /\ can(u, "session.end", AsActee(u))

\* C4: after softDelete(a), verbsOn(a, e) is empty and can(a, v, e) is false
\* for every verb and every actee other than a's own, although the call
\* removed no grant and no membership edge; and every verb an actor does
\* hold comes from a grant held by an actor that is not soft-deleted.
C4_SoftDeletedExcluded ==
  /\ [][last'.op = "delete" =>
          \A a \in Instances, now \in Times :
            delete(a, now) => ~live(a.id)' /\ (verbsOn(a, F1) = {})']_vars
  /\ [](\A a \in Instances : ~live(a.id) =>
          \A e \in Targets :
            /\ verbsOn(a, e) = {}
            /\ e.acteeId # a.acteeId => \A verb \in Verbs : ~can(a, verb, e))
  /\ [](\A u \in Instances, e \in Targets : \A verb \in verbsOn(u, e) :
          \E g \in conferring(verb, e) : live(g.actorId))
  /\ [][last'.op = "delete" => grants' = grants /\ members' = members]_vars

\* C4 witness: the group G1 has just been soft-deleted; its grant on F1 and
\* U1's membership of it are still stored, and neither G1 nor its member
\* U1 holds a verb on F1.
C4_Witness ==
  /\ last = [op |-> "delete", actor |-> 0, pre |-> TRUE]
  /\ ~live(3)
  /\ live(2) /\ <<2, 3>> \in members
  /\ [actorId |-> 3, roleId |-> 1, acteeId |-> "f1"] \in grants
  /\ verbsOn(Inst(actors[3]), F1) = {}
  /\ verbsOn(Inst(actors[2]), F1) = {}

\* u belongs to g through at most n membership edges between actors that
\* are not soft-deleted
RECURSIVE memberOf(_, _, _)
memberOf(u, g, n) ==
  /\ n > 0
  /\ live(u) /\ live(g)
  /\ \/ <<u, g>> \in members
     \/ \E m \in ActorIds \ {u, g} :
          <<u, m>> \in members /\ memberOf(m, g, n - 1)

\* C5: if U is a direct or transitive member of G (none of the actors on
\* the way soft-deleted, which is C4's case) and G is granted role r on
\* actee F, verbsOn(U, F) contains every verb of r although no grant names
\* U; when that grant is the only one stored, verbsOn(U, F) is exactly
\* r.verbs.
C5_MembershipInheritance ==
  \A u \in Instances, g \in grants, e \in Targets :
    (memberOf(u.id, g.actorId, Len(actors)) /\ g.acteeId \in chain(e)) =>
      /\ roleOf(g.roleId).verbs \subseteq verbsOn(u, e)
      /\ grants = {g} => verbsOn(u, e) = roleOf(g.roleId).verbs

\* C5 witness: K1 is a member of U1, U1 of G1, the only grant gives G1 the
\* editor role on F1, and K1 holds exactly the editor verbs on F1.
C5_Witness ==
  /\ {<<1, 2>>, <<2, 3>>} \subseteq members
  /\ grants = {[actorId |-> 3, roleId |-> 1, acteeId |-> "f1"]}
  /\ verbsOn(Inst(actors[1]), F1) = {"form.read", "form.update"}
  /\ verbsOn(Inst(actors[2]), F1) = {"form.read", "form.update"}

\* the verbs of the roles granted to the actor itself on the scope chain
\* <<acteeId, type, "*">> of an actee
grantedAt(a, e) ==
  UNION {roleOf(g.roleId).verbs :
           g \in {h \in grants : h.actorId = a.id
                                   /\ h.acteeId \in {e.acteeId, e.type, "*"}}}

\* C6: for an actor a that is not soft-deleted (C4's case), verbsOn(a, e)
\* contains the verbs of every role granted to a at e.acteeId, at e.type or
\* at "*", holds no verb that no grant on that chain confers, and is exactly
\* that union when a belongs to no other actor; so whatever is granted at
\* the type or "*" scope, the verbs of a grant at the specific id stay; an
\* Actor used as a target has the chain <<acteeId, its actor type, "*">>.
C6_ScopeChainUnion ==
  /\ \A a \in Instances : acteeIds(a) = <<a.acteeId, a.type, "*">>
  /\ \A a \in Instances, e \in Targets : live(a.id) =>
        LET has == verbsOn(a, e) IN
          /\ grantedAt(a, e) \subseteq has
          /\ \A verb \in has : conferring(verb, e) # {}
          /\ (\A p \in ActorIds : <<a.id, p>> \notin members) =>
               has = grantedAt(a, e)

\* C6 witness: U1 holds the editor role on F1 itself and the app role at
\* the type scope "form" or at "*": on F1 it holds the verbs of both, and
\* on the actor K1 as a target only what is granted at "*".
C6_Witness ==
  /\ [actorId |-> 2, roleId |-> 1, acteeId |-> "f1"] \in grants
  /\ \/ /\ [actorId |-> 2, roleId |-> 2, acteeId |-> "form"] \in grants
        /\ verbsOn(Inst(actors[2]), AsActee(actors[1])) = {}
     \/ /\ [actorId |-> 2, roleId |-> 2, acteeId |-> "*"] \in grants
        /\ verbsOn(Inst(actors[2]), AsActee(actors[1])) = {"form.read", "session.end"}
  /\ verbsOn(Inst(actors[2]), F1) = {"form.read", "form.update", "session.end"}

\* the cases can answers in code, before the store is asked
shortcut(a, verb, e) ==
  /\ a.acteeId = e.acteeId
  /\ \/ verb \in {"user.read", "user.update"}
     \/ verb = "session.end" /\ a.type # "field_key"

holder(b, x) == (x = b.id /\ live(x)) \/ memberOf(b.id, x, Len(actors))

\* the grant t is one of those that reach b on e
reaches(b, t, e) == t \in grants /\ holder(b, t.actorId) /\ t.acteeId \in chain(e)

\* a grant other than t confers the verb to b on e
otherPath(b, e, verb, t) ==
  \E g \in grants \ {t} :
    holder(b, g.actorId) /\ g.acteeId \in chain(e) /\ verb \in roleOf(g.roleId).verbs

\* C8 (as stated): after a.assignRole(r, e), verbsOn(a, e) contains r.verbs
\* (a not soft-deleted); after a.unassignRole(r, e), verbsOn(a, e) has lost
\* exactly the verbs of r that no other grant confers, and the verb set of
\* no other actor and on no other actee has changed.
C8_RoundTripTouchesNothingElse ==
  [][/\ last'.op = "assignRole" =>
          \A a \in Instances, role \in Roles :
            (assignRole(a, role, F1) /\ live(a.id)) =>
              role.verbs \subseteq verbsOn(a, F1)'
     /\ last'.op = "unassignRole" =>
          \A a \in Instances, role \in Roles :
            unassignRole(a, role, F1) =>
              /\ verbsOn(a, F1)' =
                   verbsOn(a, F1) \
                     {verb \in role.verbs :
                        /\ reaches(a, tripleOf(a, role, F1), F1)
                        /\ ~otherPath(a, F1, verb, tripleOf(a, role, F1))}
              /\ \A b \in Instances, e \in Targets :
                   (b # a \/ e # F1) => verbsOn(b, e)' = verbsOn(b, e)]_vars

\* C8 (amended): after a.assignRole(r, e) the grant (a, r, e) is stored, and
\* every stored grant of an actor that is not soft-deleted puts its role's
\* verbs in verbsOn(a, e2) for every actee e2 whose scope chain holds the
\* granted scope.  After a.unassignRole(r, e), every actor b
\* and actee e2 has lost exactly the verbs of r that the removed grant
\* conferred to b on e2 (b is a or belongs to a, the scope is in e2's chain)
\* and that no other role, scope or membership path confers; every other
\* verb set is unchanged, and unassigning a grant that is not stored
\* changes nothing.  The actees compared are F1, which the granted scopes
\* "f1" and "form" address, and an actee that only "*" reaches.
C8_GrantUnassignRoundTrip ==
  /\ [](\A g \in grants, e \in Targets :
          (live(g.actorId) /\ g.acteeId \in chain(e)) =>
            roleOf(g.roleId).verbs \subseteq verbsOn(Inst(actors[g.actorId]), e))
  /\ [][/\ last'.op = "assignRole" =>
             \A a \in Instances, role \in RoleArgs, actee \in ActeeArgs :
               assignRole(a, role, actee) => tripleOf(a, role, actee) \in grants'
        /\ (last'.op = "unassignRole" /\ ~last'.pre) =>
             UNCHANGED <<actors, grants, members>>
        /\ (last'.op = "unassignRole" /\ last'.pre) =>
             /\ grants' \subseteq grants
             /\ \A t \in grants \ grants' :
                  \A b \in Instances, e \in {F1, GhostActee} :
                    verbsOn(b, e)' =
                      verbsOn(b, e) \
                        {verb \in roleOf(t.roleId).verbs :
                           reaches(b, t, e) /\ ~otherPath(b, e, verb, t)}]_vars

\* C8 witness: unassignRole has just removed a grant; U1 still holds the
\* app role on F1, so form.read stayed and form.update is gone, for U1 and
\* for its member K1.
C8_Witness ==
  /\ last = [op |-> "unassignRole", actor |-> 0, pre |-> TRUE]
  /\ grants = {[actorId |-> 2, roleId |-> 2, acteeId |-> "f1"]}
  /\ <<1, 2>> \in members
  /\ verbsOn(Inst(actors[2]), F1) = {"form.read", "session.end"}
  /\ verbsOn(Inst(actors[1]), F1) = {"form.read", "session.end"}

C10_ConsumeNoOpForOtherTypes ==
  [][last'.op = "consume" =>
       \A a \in Instances :
         (last'.actor = a.id /\ a.type # "singleUse") =>
           /\ a.type \in actorTypes \ {"singleUse"}
           /\ UNCHANGED <<actors, grants, members>>
           /\ last'.pre => /\ getById(a.id)' = actors[a.id]
                           /\ getById(a.id)'.deletedAt = Null]_vars

\* C10 witness: a field key that holds a grant has just been consumed and is
\* still fetchable.
C10_Witness ==
  /\ last.op = "consume" /\ last.pre
  /\ exists(last.actor)
  /\ actors[last.actor].type = "field_key"
  /\ getById(last.actor) = actors[last.actor]
  /\ \E g \in grants : g.actorId = last.actor

----------------------------------------------------------------------------
\* Specification of repeated soft-deletion: the actors of the scenario are
\* granted roles and soft-deleted, again and again, while the clock advances.

\* the clock never runs behind a stamp it has given
Clock ==
  LET stamps == {actors[i].deletedAt : i \in ActorIds} \cup {1}
  IN  CHOOSE t \in stamps : \A u \in stamps : u <= t

SoftDelete ==
  \E a \in Instances, now \in Clock..MaxTime :
    /\ delete(a, now)
    /\ last' = [op |-> "delete", actor |-> a.id, pre |-> live(a.id)]
    /\ UNCHANGED <<pending, aside>>

NextTomb == SoftDelete \/ AssignRole

SpecTomb == Init /\ [][NextTomb]_vars

C12_AssignRoleIdempotent ==
  /\ [](\A a \in Instances, role \in Roles : \A e \in {AsActee(a), F1} :
          LET t == [actorId |-> a.id, roleId |-> role.id, acteeId |-> e.acteeId]
          IN  /\ tripleOf(a, role, e) = t
              /\ tripleOf(a, Bare(role.id), e) = t
              /\ tripleOf(a, role, Bare(e.acteeId)) = t
              /\ tripleOf(a, Bare(role.id), Bare(e.acteeId)) = t)
  /\ [](\A t \in grants :
          actors_assignRole(t.actorId, t.roleId, t.acteeId) = grants)
  /\ [][last'.op = "assignRole" =>
          \A a \in Instances, role \in SelfRoleArgs : \A actee \in {a, Bare("*")} :
            assignRole(a, role, actee) =>
              LET t == tripleOf(a, role, actee)
              IN  /\ t \in grants'
                  /\ grants' \ {t} = grants \ {t}
                  /\ t \in grants => grants' = grants
                  /\ UNCHANGED <<actors, members>>]_vars

\* C12 witness: assignRole has just been called for the app role of actor 1
\* on itself when the actor already held that role's verbs there, and the
\* store holds that one grant and nothing else.
C12_Witness ==
  /\ last = [op |-> "assignRole", actor |-> 0, pre |-> TRUE]
  /\ live(1)
  /\ grants = {[actorId |-> 1, roleId |-> 2, acteeId |-> "a1"]}

----------------------------------------------------------------------------
\* Specification of role assignment by well-known name: the actors of the
\* scenario are given roles by systemName, one of which is not configured,
\* and grants are taken away again.

SystemNames == {"editor", "app", "admin"}

AssignSystemRole ==
  \E a \in Instances, roleSystemName \in SystemNames, actee \in ActeeArgs :
    /\ assignSystemRole(a, roleSystemName, actee)
    /\ Cardinality(grants') <= MaxGrants
    /\ last' = [op |-> "assignSystemRole", actor |-> a.id,
                pre |-> roles_getBySystemName(roleSystemName) # None]
    /\ UNCHANGED <<pending, aside>>

NextSystem == AssignSystemRole \/ UnassignRole

SpecSystem == Init /\ [][NextSystem]_vars

\* C13: assignSystemRole with a systemName that no Role has is rejected
\* with the missing-well-known-row error and leaves the Grant Store (and
\* every row) as it is; with a systemName that a Role has, the Grant Store
\* after the call is the one assignRole with that Role produces.
C13_AssignSystemRole ==
  [][last'.op = "assignSystemRole" =>
       \A a \in Instances, roleSystemName \in SystemNames, actee \in ActeeArgs :
         (last'.actor = a.id /\ assignSystemRole(a, roleSystemName, actee)) =>
           IF \E r \in Roles : r.systemName = roleSystemName
           THEN /\ assignSystemRoleOutcome(roleSystemName) = [resolved |-> TRUE]
                /\ \E r \in Roles :
                     /\ r.systemName = roleSystemName
                     /\ assignRole(a, r, actee)
                     /\ [actorId |-> a.id, roleId |-> r.id,
                         acteeId |-> acteeIdArg(actee)] \in grants'
           ELSE /\ assignSystemRoleOutcome(roleSystemName) =
                     [rejected |-> missingSystemRow]
                /\ UNCHANGED <<actors, grants, members>>]_vars

\* C13 witness: U1 holds the editor role on F1, given by name, and a call
\* with a name that is not configured has just been rejected.
C13_Witness ==
  /\ last = [op |-> "assignSystemRole", actor |-> 2, pre |-> FALSE]
  /\ grants = {[actorId |-> 2, roleId |-> 1, acteeId |-> "f1"]}

----------------------------------------------------------------------------
\* Specification of concurrent assignment: a request asks canAssignRole of
\* the assigner and, when the answer is yes, calls assignRole of the
\* grantee; the two calls are separate round trips to the store, and other
\* requests (unassignRole, delete) run between them.  U1 starts as editor
\* of F1.

InitRace ==
  /\ actors = Fixture
  /\ grants = {[actorId |-> 2, roleId |-> 1, acteeId |-> "f1"]}
  /\ members = {}
  /\ last = [op |-> "init", actor |-> 0, pre |-> TRUE]
  /\ pending = NoRequest
  /\ AsideInit

\* the request's first round trip: assigner.canAssignRole(role, actee)
CheckAssign ==
  \E assigner \in Instances, grantee \in Instances, role \in Roles :
    /\ pending = NoRequest
    /\ pending' = [assigner |-> assigner.id, grantee |-> grantee.id,
                   role |-> role, actee |-> F1,
                   allowed |-> canAssignRole(assigner, role, F1)]
    /\ last' = [op |-> "canAssignRole", actor |-> assigner.id,
                pre |-> canAssignRole(assigner, role, F1)]
    /\ UNCHANGED <<actors, grants, members>>
    /\ UNCHANGED aside

\* the request's second round trip: grantee.assignRole(role, actee)
WriteGrant ==
  /\ pending # NoRequest
  /\ pending.allowed
  /\ assignRole(Inst(actors[pending.grantee]), pending.role, pending.actee)
  /\ Cardinality(grants') <= MaxGrants
  /\ last' = [op |-> "assignRole", actor |-> 0,
              pre |-> canAssignRole(Inst(actors[pending.assigner]),
                                    pending.role, pending.actee)]
  /\ pending' = NoRequest
  /\ UNCHANGED aside

\* the request ends without a write when the answer was no
RejectAssign ==
  /\ pending # NoRequest
  /\ ~pending.allowed
  /\ last' = [op |-> "rejected", actor |-> 0, pre |-> FALSE]
  /\ pending' = NoRequest
  /\ UNCHANGED <<actors, grants, members>>
  /\ UNCHANGED aside

NextRace == CheckAssign \/ WriteGrant \/ RejectAssign \/ UnassignRole \/ Delete

SpecRace == InitRace /\ [][NextRace]_vars

C15_SoftDeletedPassesNoCheck ==
  \A a \in Instances :
    ~live(a.id) => \A verb \in Verbs, e \in Targets : ~can(a, verb, e)

\* C15 witness of the divergence: U1 is soft-deleted, holds no verb
\* anywhere, and can still answers yes for user.read, user.update and
\* session.end on U1's own actee.
C15_Witness ==
  /\ last.op = "delete"
  /\ ~live(2)
  /\ \A e \in Targets : verbsOn(Inst(actors[2]), e) = {}
  /\ can(Inst(actors[2]), "user.read", AsActee(actors[2]))
  /\ can(Inst(actors[2]), "user.update", AsActee(actors[2]))
  /\ can(Inst(actors[2]), "session.end", AsActee(actors[2]))

----------------------------------------------------------------------------
\* Specification of resolution over any membership graph: the membership
\* edges are whatever the store holds, cycles and self-membership included
\* (data that slipped past the write-time check); U1 is editor of F1;
\* actors are soft-deleted and the grant is taken away.

AllEdges == {<<1, 2>>, <<2, 1>>, <<2, 3>>, <<3, 2>>, <<3, 1>>, <<1, 3>>, <<1, 1>>}

InitGraph ==
  /\ actors = Fixture
  /\ grants = {[actorId |-> 2, roleId |-> 1, acteeId |-> "f1"]}
  /\ members \in SUBSET AllEdges
  /\ last = [op |-> "init", actor |-> 0, pre |-> TRUE]
  /\ pending = NoRequest
  /\ AsideInit

NextGraph == Delete \/ UnassignRole

SpecGraph == InitGraph /\ [][NextGraph]_vars

\* the membership graph has a cycle through actors that are not soft-deleted
cyclic == \E i \in ActorIds : memberOf(i, i, Len(actors))

\* C16: for every membership graph, cyclic ones included, the closure
\* traversal of a subject ends within as many rounds as there are actors,
\* enters no actor twice, and yields the subject and the actors it belongs
\* to; verbsOn then returns a set of verbs and can a boolean.
C16_TraversalTerminates ==
  \A s \in Instances :
    LET nodes == {i \in ActorIds : live(i)}
        w == walk(nodes, {s.id}, {s.id}, Cardinality(ActorIds))
        rounds == DOMAIN w.entered
    IN  /\ w.done
        /\ \A i \in rounds : s.id \notin w.entered[i]
        /\ \A i \in rounds, j \in rounds :
             i # j => w.entered[i] \cap w.entered[j] = {}
        /\ live(s.id) =>
             /\ ancestorsOf(s.id) = {s.id} \cup UNION {w.entered[i] : i \in rounds}
             /\ ancestorsOf(s.id) =
                  {s.id} \cup {g \in ActorIds : memberOf(s.id, g, Len(actors))}
        /\ \A e \in Targets :
             /\ verbsOn(s, e) \subseteq Verbs
             /\ \A verb \in Verbs : can(s, verb, e) \in BOOLEAN

\* C16 witness: K1 and U1 are members of each other, K1 is also a member of
\* itself, G1 has been soft-deleted, and K1 holds exactly U1's editor verbs
\* on F1.
C16_Witness ==
  /\ cyclic
  /\ {<<1, 2>>, <<2, 1>>, <<1, 1>>} \subseteq members
  /\ last.op = "delete" /\ ~live(3) /\ live(1) /\ live(2)
  /\ ancestorsOf(1) = {1, 2}
  /\ verbsOn(Inst(actors[1]), F1) = {"form.read", "form.update"}

\* C17: canAssignRole(role, actee) on actor a is true exactly when every
\* verb of role.verbs is in verbsOn(a, actee), whatever verbs the role
\* lists: true for a role without verbs, and false for a self-access verb
\* on a's own actee that only the code grant of can confers.
C17_CanAssignRoleIsSubset ==
  \A a \in Subjects, e \in Targets :
    LET has == verbsOn(a, e) IN
      \A required \in SUBSET Verbs :
        LET role == [id |-> 0, systemName |-> "probe", verbs |-> required]
            may == canAssignRole(a, role, e)
        IN  /\ may <=> required \subseteq has
            /\ required = {} => may
            /\ (required # {} /\ required \cap has = {}) => ~may

\* C17 witness: U1 holds the app role everywhere, so it may assign the app
\* role and a role without verbs on its own actee, may not assign a role of
\* user.read there although can lets U1 read itself, and may not assign the
\* editor role.
C17_Witness ==
  /\ last.op = "assignSystemRole"
  /\ grants = {[actorId |-> 2, roleId |-> 2, acteeId |-> "*"]}
  /\ LET u == Inst(actors[2])
         self == AsActee(actors[2])
     IN  /\ canAssignRole(u, roleOf(2), self)
         /\ canAssignRole(u, [id |-> 0, systemName |-> "probe", verbs |-> {}], self)
         /\ can(u, "user.read", self)
         /\ ~canAssignRole(u, [id |-> 0, systemName |-> "probe",
                               verbs |-> {"user.read"}], self)
         /\ ~canAssignRole(u, roleOf(1), self)

----------------------------------------------------------------------------
\* The server entrypoint: CLEANUP (let termed, term, the signal and message
\* listeners) and its specification.  No request touches the actor store.

\* most signals and parent messages delivered to one process
MaxEvents == 4

storeVars == <<actors, grants, members, last, pending>>

\* what the entrypoint's cleanup leaves alone
offServer == <<storeVars, enketoVars, httpVars>>

StoreIdle ==
  /\ actors = <<>>
  /\ grants = {}
  /\ members = {}
  /\ last = [op |-> "init", actor |-> 0, pre |-> TRUE]
  /\ pending = NoRequest

\* the process runs until process.exit is called
running == exits = <<>>

term_noFlag ==
  /\ termed' = TRUE
  /\ gracefulStarts' = gracefulStarts + 1
  /\ stage' = "draining"
  /\ UNCHANGED exits

\* const term = () => { ... }
term ==
  IF termed = TRUE
  THEN /\ exits' = Append(exits, -1)
       /\ UNCHANGED <<termed, gracefulStarts, stage>>
  ELSE /\ termed' = TRUE
       /\ gracefulStarts' = gracefulStarts + 1
       /\ stage' = "draining"
       /\ UNCHANGED exits

\* process.on('SIGINT', term); process.on('SIGTERM', term)
Signal ==
  \E sig \in {"SIGINT", "SIGTERM"} :
    /\ running
    /\ Len(received) < MaxEvents
    /\ received' = Append(received, sig)
    /\ term
    /\ UNCHANGED offServer

\* process.on('message', (message) => { if (message === 'shutdown') term(); })
Message ==
  \E message \in {"shutdown", "status"} :
    /\ running
    /\ Len(received) < MaxEvents
    /\ received' = Append(received, message)
    /\ IF message = "shutdown" THEN term
       ELSE UNCHANGED <<termed, gracefulStarts, stage, exits>>
    /\ UNCHANGED offServer

\* the graceful exit handler has drained the server and calls the callback,
\* which calls db.destroy
GracefulCallback ==
  /\ running
  /\ stage = "draining"
  /\ stage' = "destroying"
  /\ UNCHANGED <<termed, received, gracefulStarts, exits, offServer>>

\* db.destroy has finished and calls () => process.exit(0)
DbDestroyed ==
  /\ running
  /\ stage = "destroying"
  /\ stage' = "destroyed"
  /\ exits' = Append(exits, 0)
  /\ UNCHANGED <<termed, received, gracefulStarts, offServer>>

InitServer == StoreIdle /\ AsideInit

NextServer == Signal \/ Message \/ GracefulCallback \/ DbDestroyed

SpecServer == InitServer /\ [][NextServer]_vars

\* the events that call term
TermEvents == {"SIGINT", "SIGTERM", "shutdown"}

\* how many of the events delivered so far call term
termCalls == Cardinality({i \in DOMAIN received : received[i] \in TermEvents})

\* C18: over any sequence of SIGINT, SIGTERM and parent messages, the
\* graceful exit handler is started at most once, by the first event that
\* calls term; every later such event calls process.exit(-1); any other
\* message changes nothing; and process.exit(0) is called only on the
\* graceful path, after db.destroy has finished.
C18_ShutdownStateMachine ==
  /\ [](/\ gracefulStarts <= 1
        /\ gracefulStarts = 1 <=> termCalls >= 1
        /\ termed <=> termCalls >= 1
        /\ Len(exits) <= 1
        /\ exits = <<-1>> <=> termCalls >= 2
        /\ exits = <<0>> <=> stage = "destroyed"
        /\ exits = <<0>> => termCalls = 1 /\ gracefulStarts = 1)
  /\ [][Len(received') = Len(received) + 1 =>
          IF received'[Len(received')] \in TermEvents
          THEN IF termCalls = 0
               THEN /\ gracefulStarts' = 1
                    /\ stage' = "draining"
                    /\ exits' = <<>>
               ELSE /\ exits' = <<-1>>
                    /\ gracefulStarts' = gracefulStarts
                    /\ stage' = stage
          ELSE UNCHANGED <<termed, gracefulStarts, stage, exits>>]_vars
  /\ [][exits' # exits /\ exits' = <<0>> => stage = "destroying"]_vars

\* C18 witness: SIGINT started the graceful exit, a status message was
\* ignored, and a shutdown message arriving while db.destroy was running
\* forced the exit with -1.
C18_Witness ==
  /\ received = <<"SIGINT", "status", "shutdown">>
  /\ stage = "destroying"
  /\ gracefulStarts = 1
  /\ exits = <<-1>>

----------------------------------------------------------------------------
\* The Enketo client: src/lib/util/enketo.js (mock, enketo, init) and the
\* specification of one preview call and the callbacks of its request.

\* most data chunks one response delivers
MaxChunks == 2

\* config == null
NullConfig == [isNull |-> TRUE]

\* a field of the configuration that is null or undefined
Missing == "(null)"

\* isBlank of ./util: null, undefined or the empty string
isBlank(x) == x = Missing \/ x = ""

\* what new URL(config.url) yields for the urls of the configurations
\* below; urls outside this table make it throw a TypeError
ParsedUrls ==
  { [href |-> "https://enketo.example/-", hostname |-> "enketo.example",
     pathname |-> "/-", port |-> "", protocol |-> "https:"],
    [href |-> "http://localhost:8005/-", hostname |-> "localhost",
     pathname |-> "/-", port |-> "8005", protocol |-> "http:"] }

throwsTypeError(url) == \A u \in ParsedUrls : u.href # url

URL(url) == CHOOSE u \in ParsedUrls : u.href = url

Configs ==
  {NullConfig} \cup
  [url : {Missing, "", "enketo", "https://enketo.example/-", "http://localhost:8005/-"},
   apiKey : {Missing, "", "key"}]

mock == [kind |-> "mock"]

enketo(hostname, pathname, port, protocol, apiKey) ==
  [kind |-> "enketo", hostname |-> hostname, pathname |-> pathname,
   port |-> port, protocol |-> protocol, apiKey |-> apiKey]

init(config) ==
  IF config = NullConfig THEN mock
  ELSE IF isBlank(config.url) \/ isBlank(config.apiKey) THEN mock
  ELSE IF throwsTypeError(config.url) THEN mock
  ELSE LET parsedUrl == URL(config.url)
       IN  enketo(parsedUrl.hostname, parsedUrl.pathname, parsedUrl.port,
                  parsedUrl.protocol, config.apiKey)

resolved(value) == [state |-> "resolved", value |-> value]

rejected(problem, detail) ==
  [state |-> "rejected", value |-> [problem |-> problem, detail |-> detail]]

Pending == [state |-> "pending", value |-> [none |-> TRUE]]

\* resolve and reject of a promise that is already settled do nothing
settle(outcome) == IF promise.state = "pending" THEN outcome ELSE promise

\* the chunks a response may deliver
Chunks == {"{", "}", "1"}

\* JSON.parse(Buffer.concat(resData)) of the chunks above: the texts "{}"
\* and "1", "11", ... parse, every other text throws
parses(resData) ==
  \/ resData = <<"{", "}">>
  \/ resData # <<>> /\ \A i \in DOMAIN resData : resData[i] = "1"

\* the parsed body, named by its text
JSONparse(resData) == [json |-> resData]

onEnd_anyStatus(statusCode, resData) ==
  IF ~parses(resData) THEN rejected("enketoUnexpectedResponse", "invalid JSON")
  ELSE resolved(JSONparse(resData))

\* res.on('end', () => { ... })
onEnd(statusCode, resData) ==
  IF ~parses(resData) THEN rejected("enketoUnexpectedResponse", "invalid JSON")
  ELSE IF statusCode = 200 \/ statusCode = 201 THEN resolved(JSONparse(resData))
  ELSE rejected("enketoUnexpectedResponse", "wrong status code")

\* require('../util/enketo').init(config.get('default.enketo'))
InitClient ==
  \E config \in Configs :
    /\ client = Unbuilt
    /\ client' = init(config)
    /\ last' = [op |-> "init", actor |-> 0, pre |-> init(config) = mock]
    /\ UNCHANGED <<actors, grants, members, pending, serverVars, httpVars,
                   promise, requests, res>>

\* client.preview(openRosaUrl, xmlFormId)
Preview ==
  /\ client # Unbuilt
  /\ promise = NoPromise
  /\ IF client = mock
     THEN /\ promise' = rejected("enketoNotConfigured", "")
          /\ UNCHANGED <<requests, res>>
     ELSE /\ promise' = Pending
          /\ requests' = requests + 1
          /\ res' = [phase |-> "waiting", statusCode |-> 0, resData |-> <<>>]
  /\ last' = [op |-> "preview", actor |-> 0, pre |-> client = mock]
  /\ UNCHANGED <<actors, grants, members, pending, serverVars, httpVars, client>>

\* the request callback (res) => { ... }
Respond ==
  \E statusCode \in {200, 201, 204, 500} :
    /\ res.phase = "waiting"
    /\ res' = [phase |-> "open", statusCode |-> statusCode, resData |-> <<>>]
    /\ last' = [op |-> "response", actor |-> 0, pre |-> TRUE]
    /\ UNCHANGED <<actors, grants, members, pending, serverVars, httpVars,
                   client, promise, requests>>

\* res.on('data', (d) => { resData.push(d); })
Data ==
  \E d \in Chunks :
    /\ res.phase = "open"
    /\ Len(res.resData) < MaxChunks
    /\ res' = [res EXCEPT !.resData = Append(@, d)]
    /\ last' = [op |-> "data", actor |-> 0, pre |-> TRUE]
    /\ UNCHANGED <<actors, grants, members, pending, serverVars, httpVars,
                   client, promise, requests>>

\* res.on('end', ...)
End ==
  /\ res.phase = "open"
  /\ res' = [res EXCEPT !.phase = "ended"]
  /\ promise' = settle(onEnd(res.statusCode, res.resData))
  /\ last' = [op |-> "end", actor |-> 0, pre |-> promise.state = "pending"]
  /\ UNCHANGED <<actors, grants, members, pending, serverVars, httpVars, client, requests>>

\* res.on('error', reject)
ResError ==
  /\ res.phase = "open"
  /\ promise' = settle(rejected("error", "response"))
  /\ last' = [op |-> "res.error", actor |-> 0, pre |-> promise.state = "pending"]
  /\ UNCHANGED <<actors, grants, members, pending, serverVars, httpVars,
                 client, requests, res>>

\* req.on('error', (error) => { reject(Problem.internal.enketoNotAvailable({ error })); })
ReqError ==
  /\ requests > 0
  /\ promise' = settle(rejected("enketoNotAvailable", "error"))
  /\ last' = [op |-> "req.error", actor |-> 0, pre |-> promise.state = "pending"]
  /\ UNCHANGED <<actors, grants, members, pending, serverVars, httpVars,
                 client, requests, res>>

InitEnketo == StoreIdle /\ AsideInit

NextEnketo ==
  InitClient \/ Preview \/ Respond \/ Data \/ End \/ ResError \/ ReqError

SpecEnketo == InitEnketo /\ [][NextEnketo]_vars

\* the configurations the claim calls null, blank or unparseable
unusable(config) ==
  \/ config = NullConfig
  \/ config.url \in {Missing, "", "enketo"}
  \/ config.apiKey \in {Missing, ""}

settled == promise.state \in {"resolved", "rejected"}

\* C19: the promise of preview resolves, with the parsed body, only when
\* the response has ended with status 200 or 201 and a body that parses;
\* the end of a response rejects it with enketoUnexpectedResponse when the
\* body does not parse, whatever the status, or when the status is another
\* one; a request error rejects it with enketoNotAvailable; init returns the
\* mock exactly for a null, blank or unparseable configuration, and the
\* mock rejects with enketoNotConfigured and issues no request; once
\* settled, the promise is changed by no later callback.
C19_PreviewOutcome ==
  /\ [](/\ promise.state = "resolved" =>
             /\ res.phase = "ended"
             /\ res.statusCode \in {200, 201}
             /\ parses(res.resData)
             /\ promise.value = [json |-> res.resData]
        /\ \A config \in Configs : init(config) = mock <=> unusable(config)
        /\ client = mock =>
             /\ requests = 0
             /\ res = NoResponse
             /\ promise.state # "none" =>
                  promise.state = "rejected" /\
                  promise.value.problem = "enketoNotConfigured"
        /\ (promise.state = "rejected" /\
             promise.value.problem = "enketoNotConfigured") => client = mock)
  /\ [][/\ settled => promise' = promise
        /\ (last'.op = "end" /\ ~settled) =>
             IF parses(res.resData) /\ res.statusCode \in {200, 201}
             THEN promise' = [state |-> "resolved",
                              value |-> [json |-> res.resData]]
             ELSE /\ promise'.state = "rejected"
                  /\ promise'.value.problem = "enketoUnexpectedResponse"
        /\ (last'.op = "req.error" /\ ~settled) =>
             /\ promise'.state = "rejected"
             /\ promise'.value.problem = "enketoNotAvailable"
        /\ (last'.op = "preview" /\ client = mock) =>
             /\ promise'.state = "rejected"
             /\ promise'.value.problem = "enketoNotConfigured"
             /\ requests' = requests]_vars

\* C19 witness: the response ended with status 201 and the body {}, the
\* promise resolved with it, and the request error that came afterwards
\* changed nothing.
C19_Witness ==
  /\ last = [op |-> "req.error", actor |-> 0, pre |-> FALSE]
  /\ client.kind = "enketo"
  /\ res = [phase |-> "ended", statusCode |-> 201, resData |-> <<"{", "}">>]
  /\ promise = [state |-> "resolved", value |-> [json |-> <<"{", "}">>]]

----------------------------------------------------------------------------
\* The url-rewriting middleware versionParser (src/unnamed/part_000) and the
\* specification that hands it one request.  A url is the sequence of its
\* characters.

\* longest request url
MaxUrlLen == 5

UrlChars == {"/", "v", "1", "2", "k"}

RECURSIVE urlsOfLen(_)
urlsOfLen(n) ==
  IF n = 0 THEN {<<>>}
  ELSE {Append(u, c) : u \in urlsOfLen(n - 1), c \in UrlChars}

Urls == UNION {urlsOfLen(n) : n \in 0..MaxUrlLen}

\* the characters \d matches
DigitChars == <<"0", "1", "2", "3", "4", "5", "6", "7", "8", "9">>

isDigit(c) == \E i \in DOMAIN DigitChars : DigitChars[i] = c

\* Number(match[1]) of one digit
Number(c) == (CHOOSE i \in DOMAIN DigitChars : DigitChars[i] = c) - 1

\* /^\/v(\d)\//.exec(url): the captured digit, or no match
NoMatch == [matched |-> FALSE]

exec(url) ==
  IF /\ Len(url) >= 4
     /\ url[1] = "/"
     /\ url[2] = "v"
     /\ isDigit(url[3])
     /\ url[4] = "/"
  THEN [matched |-> TRUE, group |-> url[3]]
  ELSE NoMatch

\* url.slice(n)
slice(url, n) == SubSeq(url, n + 1, Len(url))

versionParser_anyVersion(req) ==
  LET match == exec(req.url)
  IN  IF match = NoMatch
      THEN [request |-> req, next |-> [error |-> "missingApiVersion"]]
      ELSE [request |-> [url |-> slice(req.url, 3),
                         apiVersion |-> Number(match.group)],
            next |-> [error |-> "none"]]

\* const versionParser = (request, response, next) => { ... }: the request
\* as it leaves and the argument next is called with
versionParser(req) ==
  LET match == exec(req.url)
  IN  IF match = NoMatch
      THEN [request |-> req, next |-> [error |-> "missingApiVersion"]]
      ELSE IF Number(match.group) # 1
      THEN [request |-> [url |-> req.url, apiVersion |-> Number(match.group)],
            next |-> [error |-> "unexpectedApiVersion", got |-> match.group]]
      ELSE [request |-> [url |-> slice(req.url, 3),
                         apiVersion |-> Number(match.group)],
            next |-> [error |-> "none"]]

InitHttp ==
  /\ StoreIdle
  /\ ServerInit
  /\ EnketoInit
  /\ request \in [url : Urls]
  /\ nexts = <<>>

VersionParser ==
  /\ nexts = <<>>
  /\ request' = versionParser(request).request
  /\ nexts' = <<versionParser(request).next>>
  /\ UNCHANGED <<storeVars, serverVars, enketoVars>>

NextHttp == VersionParser

SpecHttp == InitHttp /\ [][NextHttp]_vars

\* url begins with the characters of prefix
startsWith(url, prefix) ==
  Len(url) >= Len(prefix) /\ SubSeq(url, 1, Len(prefix)) = prefix

\* url begins with /v, one digit and /
versioned(url) ==
  \E i \in DOMAIN DigitChars : startsWith(url, <<"/", "v", DigitChars[i], "/">>)

\* C20: versionParser calls next without an error exactly when the url
\* starts with /v1/; then the url leaves without its first three
\* characters and apiVersion is 1.  A url that does not start with /v, one
\* digit and / gets missingApiVersion; one that does, with a digit other
\* than 1, gets unexpectedApiVersion; in both cases the url leaves as it
\* came.  next is called exactly once.
C20_VersionParser ==
  [][nexts' # nexts =>
       LET url == request.url
           v1 == startsWith(url, <<"/", "v", "1", "/">>)
       IN  /\ Len(nexts') = 1
           /\ nexts'[1].error = "none" <=> v1
           /\ v1 => /\ request'.apiVersion = 1
                    /\ Len(request'.url) = Len(url) - 3
                    /\ <<"/", "v", "1">> \o request'.url = url
                    /\ request'.url[1] = "/"
           /\ ~versioned(url) => /\ nexts'[1].error = "missingApiVersion"
                                 /\ request' = request
           /\ (versioned(url) /\ ~v1) =>
                /\ nexts'[1].error = "unexpectedApiVersion"
                /\ request'.url = url]_vars

\* C20 witness: a request for /v1/k has passed: its url is now /k, its
\* apiVersion 1, and next was called without an error.
C20_Witness ==
  /\ request = [url |-> <<"/", "k">>, apiVersion |-> 1]
  /\ nexts = <<[error |-> "none"]>>

====
